---- MODULE Spec2Model ----
(***************************************************************************)
(* Model of titanic_utils.py: clean_nan_values, id_nan_columns, drop_cols. *)
(*                                                                         *)
(* A Table (pandas DataFrame) is a sequence of rows.  A row keeps its      *)
(* index label (idx) and the set of columns in which its value is missing  *)
(* (na); the values themselves play no part in any of the three functions. *)
(* The column set of a Table is never altered by the code, so it is the    *)
(* fixed set Columns.                                                      *)
(*                                                                         *)
(* A caller owns one Table object (df) and calls the three functions on    *)
(* it; drop_cols mutates that object in place.  last records the most      *)
(* recent call: its arguments, what it returned or raised, and the lines   *)
(* it printed; ncalls counts the calls made so far.                        *)
(***************************************************************************)
EXTENDS Integers, Sequences, FiniteSets

VARIABLES df, last, ncalls

vars == <<df, last, ncalls>>

\* ---------------------------------------------------------------- bounds
NCols == 2
MaxRows == 3
MaxList == 2
MaxCalls == 2

ColNames == <<"a", "b", "c", "d">>

\* df.columns, in order
ColumnOrder == SubSeq(ColNames, 1, NCols)

Columns == {ColumnOrder[i] : i \in 1..NCols}

\* a column name that is not in the Table
AbsentColumn == "zz"

\* max_nans as a fraction <<numerator, denominator>>; 0.05 = 1/20
DefaultMaxNans == <<1, 20>>

MaxNansValues == {<<1, 20>>, <<1, 2>>}

RECURSIVE SeqsUpTo(_, _)
SeqsUpTo(S, n) ==
    IF n = 0 THEN {<<>>}
    ELSE LET shorter == SeqsUpTo(S, n - 1)
         IN  shorter \cup {Append(s, x) : s \in shorter, x \in S}

Rows == [idx : 1..MaxRows, na : SUBSET Columns]

\* the Tables a caller can hand in: rows labelled 1..n in order
Tables ==
    UNION {{[i \in 1..n |-> [idx |-> i, na |-> f[i]]] :
               f \in [1..n -> SUBSET Columns]} : n \in 0..MaxRows}

ColumnLists == SeqsUpTo(Columns \cup {AbsentColumn}, MaxList)

\* ------------------------------------------------------- pandas helpers
Range(s) == {s[i] : i \in 1..Len(s)}

\* the index labels of a Table
Index(t) == {t[i].idx : i \in 1..Len(t)}

\* A variant of HasColumn for which a lookup of any name succeeds.
HasColumnAny(t, c) == TRUE

\* whether df[c] finds a column (it raises KeyError otherwise)
HasColumn(t, c) == c \in Columns

\* A variant of NumNan that counts the values present (notna).
NumNotNa(t, c) == Cardinality({i \in 1..Len(t) : c \notin t[i].na})

\* df[c].isna().sum()
NumNan(t, c) == Cardinality({i \in 1..Len(t) : c \in t[i].na})

\* A variant of DropNa without inplace=True: the filtered copy is discarded.
DropNaNotInplace(t, c) == t

\* df.dropna(subset=c, inplace=True)
DropNa(t, c) == SelectSeq(t, LAMBDA r : c \notin r.na)

\* df.columns[df.isna().any()].tolist()
ColumnsWithNan(t) == SelectSeq(ColumnOrder, LAMBDA c : NumNan(t, c) > 0)

\* ------------------------------------------------ module global namespace
\* The names bound at module level once titanic_utils is imported.
ModuleGlobals ==
    [n \in {"np", "pd", "clean_nan_values", "id_nan_columns", "drop_cols"}
        |-> n]

IsBound(name) == name \in DOMAIN ModuleGlobals

\* ------------------------------------------------------- id_nan_columns
\* count > len_df * max_nans, with max_nans = p/q, q > 0, in exact
\* arithmetic (the code multiplies by the float nearest to p/q)
ExceedsMaxNans(count, len_df, max_nans) ==
    count * max_nans[2] > len_df * max_nans[1]

\* the for loop of id_nan_columns over the list it iterates
RECURSIVE ClassifyLoop(_, _, _, _, _, _)
ClassifyLoop(t, iter, len_df, max_nans, replacing_nans, drop_nans) ==
    IF iter = <<>>
    THEN [exc |-> "None", replacing_nans |-> replacing_nans,
          drop_nans |-> drop_nans]
    ELSE LET column == Head(iter) IN
         IF ~HasColumn(t, column)
         THEN [exc |-> "KeyError", replacing_nans |-> <<>>,
               drop_nans |-> <<>>]
         ELSE IF ExceedsMaxNans(NumNan(t, column), len_df, max_nans)
         THEN ClassifyLoop(t, Tail(iter), len_df, max_nans,
                           Append(replacing_nans, column), drop_nans)
         ELSE ClassifyLoop(t, Tail(iter), len_df, max_nans,
                           replacing_nans, Append(drop_nans, column))

\* The loop iterates the name colummns_wnan, which is neither a parameter
\* nor a local of id_nan_columns: it is looked up in the module globals.
\* The parameter columns is never read.
id_nan_columns(t, columns, len_df, max_nans) ==
    IF ~IsBound("colummns_wnan")
    THEN [exc |-> "NameError", replacing_nans |-> <<>>, drop_nans |-> <<>>]
    ELSE ClassifyLoop(t, ModuleGlobals["colummns_wnan"], len_df, max_nans,
                      <<>>, <<>>)

\* ------------------------------------------------------------ drop_cols
\* round((num_nan/len_df)*100, 3) in thousandths; num_nan is a numpy
\* integer, so a zero len_df gives inf or nan instead of raising.  A tie
\* in the rounding needs len_df to be a multiple of 64, beyond MaxRows.
Percentage(num_nan, len_df) ==
    IF len_df = 0
    THEN [kind |-> IF num_nan = 0 THEN "nan" ELSE "inf", milli |-> 0]
    ELSE [kind |-> "num",
          milli |-> (2 * num_nan * 100000 + len_df) \div (2 * len_df)]

\* A variant of PrintLine that takes the percentage of the rows still in
\* the Table instead of the len_df passed in.
PrintLineLiveLen(t, drop_col, len_df) ==
    [num_nan |-> NumNan(t, drop_col), col |-> drop_col,
     pct |-> Percentage(NumNan(t, drop_col), Len(t))]

\* num_nan = df[drop_col].isna().sum() and the line printed from it
PrintLine(t, drop_col, len_df) ==
    [num_nan |-> NumNan(t, drop_col), col |-> drop_col,
     pct |-> Percentage(NumNan(t, drop_col), len_df)]

RECURSIVE DropLoop(_, _, _, _)
DropLoop(t, cols, len_df, out) ==
    IF cols = <<>>
    THEN [exc |-> "None", df |-> t, out |-> out]
    ELSE LET drop_col == Head(cols) IN
         IF ~HasColumn(t, drop_col)
         THEN [exc |-> "KeyError", df |-> t, out |-> out]
         ELSE DropLoop(DropNa(t, drop_col), Tail(cols), len_df,
                       Append(out, PrintLine(t, drop_col, len_df)))

drop_cols(t, cols, len_df) == DropLoop(t, cols, len_df, <<>>)

\* ----------------------------------------------------- clean_nan_values
clean_nan_values(t) ==
    LET colummns_wnan == ColumnsWithNan(t)
        len_df == Len(t)
        cls == id_nan_columns(t, colummns_wnan, len_df, DefaultMaxNans)
        dropped == drop_cols(t, cls.drop_nans, len_df)
    IN  IF cls.exc # "None"
        THEN [exc |-> cls.exc, df |-> t, out |-> <<>>,
              replacing_nans |-> <<>>, drop_nans |-> <<>>]
        ELSE [exc |-> dropped.exc, df |-> dropped.df, out |-> dropped.out,
              replacing_nans |-> cls.replacing_nans,
              drop_nans |-> cls.drop_nans]

\* ---------------------------------------------------------- the caller
CallRecord(fn, cols, len_df, max_nans, df_in, r) ==
    [fn |-> fn, cols |-> cols, len_df |-> len_df, max_nans |-> max_nans,
     df_in |-> df_in, exc |-> r.exc, df_out |-> r.df, out |-> r.out,
     replacing_nans |-> r.replacing_nans, drop_nans |-> r.drop_nans]

NoCall ==
    [fn |-> "none", cols |-> <<>>, len_df |-> 0, max_nans |-> DefaultMaxNans,
     df_in |-> <<>>, exc |-> "None", df_out |-> <<>>, out |-> <<>>,
     replacing_nans |-> <<>>, drop_nans |-> <<>>]

Init ==
    /\ df \in Tables
    /\ last = NoCall
    /\ ncalls = 0

CallCleanNanValues ==
    /\ ncalls < MaxCalls
    /\ ncalls' = ncalls + 1
    /\ LET r == clean_nan_values(df) IN
        /\ df' = r.df
        /\ last' = CallRecord("clean_nan_values", <<>>, Len(df),
                              DefaultMaxNans, df, r)

CallIdNanColumns ==
    /\ ncalls < MaxCalls
    /\ ncalls' = ncalls + 1
    /\ \E columns \in ColumnLists, len_df \in 0..MaxRows,
          max_nans \in MaxNansValues :
        LET c == id_nan_columns(df, columns, len_df, max_nans)
            r == [exc |-> c.exc, df |-> df, out |-> <<>>,
                  replacing_nans |-> c.replacing_nans,
                  drop_nans |-> c.drop_nans]
        IN  /\ df' = df
            /\ last' = CallRecord("id_nan_columns", columns, len_df,
                                  max_nans, df, r)

CallDropCols ==
    /\ ncalls < MaxCalls
    /\ ncalls' = ncalls + 1
    /\ \E cols \in ColumnLists, len_df \in 0..MaxRows :
        LET d == drop_cols(df, cols, len_df)
            r == [exc |-> d.exc, df |-> d.df, out |-> d.out,
                  replacing_nans |-> <<>>, drop_nans |-> <<>>]
        IN  /\ df' = r.df
            /\ last' = CallRecord("drop_cols", cols, len_df, DefaultMaxNans,
                                  df, r)

Next ==
    \/ CallCleanNanValues
    \/ CallIdNanColumns
    \/ CallDropCols

Spec == Init /\ [][Next]_vars

\* a caller that makes one drop_cols call on its Table
DropColsOnce ==
    /\ ncalls = 0
    /\ CallDropCols

SpecDropCols == Init /\ [][DropColsOnce]_vars

TypeOK ==
    /\ \A i \in 1..Len(df) : df[i] \in Rows
    /\ Len(df) <= MaxRows
    /\ ncalls \in 0..MaxCalls

\* ------------------------------------------------- vocabulary of the claims
IsInjective(s) == \A i, j \in 1..Len(s) : s[i] = s[j] => i = j

\* s keeps the relative order that its elements have in whole
KeepsOrderOf(s, whole) ==
    \A i, j \in 1..Len(s) : i < j =>
        \E m, n \in 1..Len(whole) : m < n /\ whole[m] = s[i] /\ whole[n] = s[j]

\* the position of the first column of cols in which row r is missing
FirstMissing(r, cols) ==
    LET hits == {k \in 1..Len(cols) : cols[k] \in r.na}
    IN  IF hits = {} THEN 0
        ELSE CHOOSE k \in hits : \A j \in hits : k <= j

\* the rows of t whose first missing column of cols is the k-th
FirstMissingAt(t, cols, k) ==
    {i \in 1..Len(t) : FirstMissing(t[i], cols) = k}

\* the position of the first name of cols that is not a column, 0 if none
FirstAbsent(cols) ==
    LET hits == {k \in 1..Len(cols) : cols[k] \notin Columns}
    IN  IF hits = {} THEN 0
        ELSE CHOOSE k \in hits : \A j \in hits : k <= j

\* the rows of t with no missing value in any column of the set cs
WithoutNanIn(t, cs) == SelectSeq(t, LAMBDA r : r.na \cap cs = {})

RECURSIVE SumNumNan(_)
SumNumNan(out) ==
    IF out = <<>> THEN 0 ELSE Head(out).num_nan + SumNumNan(Tail(out))

\* every reordering of the list cols
Reorderings(cols) ==
    LET n == Len(cols)
        bij == {f \in [1..n -> 1..n] : \A i, j \in 1..n : f[i] = f[j] => i = j}
    IN  {[i \in 1..n |-> cols[f[i]]] : f \in bij}

Dropped == last.fn = "drop_cols"
Cleaned == last.fn = "clean_nan_values"
Classified == last.fn = "id_nan_columns"
Returned == last.exc = "None"

\* ------------------------------------------------------------------ C1
\* C1: a second clean_nan_values run on the Table returned by a first run
\* changes nothing: both runs return, the second finds no drop candidate,
\* removes no row, and returns the replace candidates of the first.
C1_SecondRunChangesNothing ==
    [][(Cleaned /\ last'.fn = "clean_nan_values") =>
          /\ last.exc = "None"
          /\ last'.exc = "None"
          /\ last'.drop_nans = <<>>
          /\ df' = df
          /\ last'.replacing_nans = last.replacing_nans]_vars

\* ------------------------------------------------------------------ C2
\* C2: when clean_nan_values runs the classifier, the classifier yields two
\* lists that are disjoint and hold only columns with a missing value.
C2_ListsDisjointAndMissing ==
    Cleaned =>
        /\ last.exc \in {"None", "KeyError"}
        /\ Range(last.replacing_nans) \cap Range(last.drop_nans) = {}
        /\ \A c \in Range(last.replacing_nans) \cup Range(last.drop_nans) :
               NumNan(last.df_in, c) > 0

\* ------------------------------------------------------------------ C3
\* C3: after drop_cols has processed its whole list, every column of the
\* list has no missing value left in the Table, the early ones included.
C3_NoNanLeftInDroppedColumns ==
    (Dropped /\ Returned) =>
        /\ df = last.df_out
        /\ \A c \in Range(last.cols) : NumNan(df, c) = 0

\* drop_cols removed rows for its first column and again for its second
C3_Witness ==
    /\ Dropped /\ Returned
    /\ Len(last.cols) >= 2
    /\ last.cols[1] # last.cols[2]
    /\ last.out[1].num_nan > 0
    /\ last.out[2].num_nan > 0
    /\ Len(df) > 0

\* ------------------------------------------------------------------ C4
\* C4: a clean_nan_values run returns a Table; every row it removed is
\* missing in some drop candidate, and a row missing only in replace
\* candidates is still there.
C4_NoRowLostToReplaceCandidate ==
    Cleaned =>
        /\ last.exc = "None"
        /\ \A i \in 1..Len(last.df_in) :
               LET r == last.df_in[i] IN
               /\ r.idx \notin Index(df) =>
                      r.na \cap Range(last.drop_nans) # {}
               /\ (r.na # {} /\ r.na \subseteq Range(last.replacing_nans)) =>
                      r.idx \in Index(df)

\* ------------------------------------------------------------------ C5
\* C5: on a Table without any missing value, clean_nan_values raises
\* nothing, prints nothing, and returns the Table unchanged with an empty
\* replace list.
C5_NoNanTableIsUntouched ==
    (Cleaned /\ \A c \in Columns : NumNan(last.df_in, c) = 0) =>
        /\ last.exc = "None"
        /\ last.out = <<>>
        /\ df = last.df_in
        /\ last.replacing_nans = <<>>

\* ------------------------------------------------------------------ C6
\* C6: id_nan_columns is a stable partition of the list passed as columns:
\* every column passed in is in exactly one output list, nothing else is,
\* and each output list keeps the order of the list passed in.
C6_StablePartitionOfArgument ==
    (Classified /\ Range(last.cols) \subseteq Columns
        /\ IsInjective(last.cols)) =>
        /\ last.exc = "None"
        /\ Range(last.replacing_nans) \cup Range(last.drop_nans)
               = Range(last.cols)
        /\ Range(last.replacing_nans) \cap Range(last.drop_nans) = {}
        /\ Len(last.replacing_nans) + Len(last.drop_nans) = Len(last.cols)
        /\ KeepsOrderOf(last.replacing_nans, last.cols)
        /\ KeepsOrderOf(last.drop_nans, last.cols)

\* ------------------------------------------------------------------ C7
\* C7: id_nan_columns puts a candidate in replacing_nans exactly when its
\* missing count is strictly above len_df * max_nans, else in drop_nans.
C7_StrictThreshold ==
    (Classified /\ Range(last.cols) \subseteq Columns) =>
        \A c \in Range(last.cols) :
            LET count == NumNan(last.df_in, c) IN
            /\ c \in Range(last.replacing_nans)
                   <=> count * last.max_nans[2] > last.len_df * last.max_nans[1]
            /\ c \in Range(last.drop_nans)
                   <=> count * last.max_nans[2] <= last.len_df * last.max_nans[1]

\* ------------------------------------------------------------------ C8
\* C8: drop_cols prints one line per column of its list, in list order; the
\* count on a column's line is the number of rows still in the Table when
\* the column is reached that are missing in it, and the percentage is that
\* count over the len_df passed in.
C8_LinesReportLiveCounts ==
    (Dropped /\ Returned) =>
        /\ Len(last.out) = Len(last.cols)
        /\ \A k \in 1..Len(last.cols) :
               LET live == Cardinality(FirstMissingAt(last.df_in, last.cols, k))
               IN  /\ last.out[k].col = last.cols[k]
                   /\ last.out[k].num_nan = live
                   /\ last.out[k].pct = Percentage(live, last.len_df)

\* the second column's line reports fewer rows than the column was missing
\* in the original Table, which had len_df rows
C8_Witness ==
    /\ Dropped /\ Returned
    /\ Len(last.cols) >= 2
    /\ last.len_df = Len(last.df_in)
    /\ last.out[1].num_nan > 0
    /\ last.out[2].num_nan > 0
    /\ last.out[2].num_nan < NumNan(last.df_in, last.cols[2])

\* ------------------------------------------------------------------ C9
\* C9: when the list names a column the Table lacks, drop_cols raises
\* KeyError at that column: the lines printed and the rows removed are
\* exactly those of the columns before it, and those rows stay removed.
C9_AbsentColumnFailsWithoutRollback ==
    (Dropped /\ FirstAbsent(last.cols) > 0) =>
        LET k == FirstAbsent(last.cols)
            before == SubSeq(last.cols, 1, k - 1)
        IN  /\ last.exc = "KeyError"
            /\ Len(last.out) = k - 1
            /\ \A j \in 1..(k - 1) : last.out[j].col = last.cols[j]
            /\ df = WithoutNanIn(last.df_in, Range(before))

\* the call failed at its second column after removing rows for its first
C9_Witness ==
    /\ Dropped
    /\ last.exc = "KeyError"
    /\ FirstAbsent(last.cols) = 2
    /\ Len(last.out) = 1
    /\ 0 < Len(df)
    /\ Len(df) < Len(last.df_in)

\* ----------------------------------------------------------------- C10
\* C10: the counts printed by a drop_cols call add up to the number of rows
\* it removed, each removed row being counted on the line of the first
\* column of the list in which it is missing, and the Table it returns is
\* the same for every order of the column list.
C10_CountsSumToRemovedRows ==
    Dropped =>
        /\ SumNumNan(last.out) = Len(last.df_in) - Len(df)
        /\ \A k \in 1..Len(last.out) :
               last.out[k].num_nan =
                   Cardinality({i \in FirstMissingAt(last.df_in, last.cols, k) :
                                   last.df_in[i].idx \notin Index(df)})
        /\ Returned =>
               /\ df = WithoutNanIn(last.df_in, Range(last.cols))
               /\ \A p \in Reorderings(last.cols) :
                      drop_cols(last.df_in, p, last.len_df).df = df

\* two columns with a row missing in both, where the counts printed depend
\* on the order
C10_Witness ==
    /\ Dropped /\ Returned
    /\ Len(last.cols) >= 2
    /\ \E i \in 1..Len(last.df_in) :
           {last.cols[1], last.cols[2]} \subseteq last.df_in[i].na
    /\ last.out[2].num_nan > 0
    /\ last.out[2].num_nan
           # drop_cols(last.df_in, <<last.cols[2], last.cols[1]>>,
                       last.len_df).out[1].num_nan
====
